---- MODULE Spec2Model ----
(***************************************************************************)
(* Claim adjudication workflow of src/agents/adjudication_workflow.py as   *)
(* driven by main() of src/ui/app.py.                                      *)
(*                                                                         *)
(* The workflow is a team of phi Agents.  A claim is handed to a master    *)
(* team (master_team or master_team_v2) by one entry point; the manager    *)
(* model of that team then delegates to the members of its team list.      *)
(* The source configures each agent with a list of instruction strings    *)
(* and nothing else: which member is called next, how often, and what a    *)
(* member answers is the model's free-text output.  Every such output is   *)
(* a nondeterministic choice here; the only guards are the ones the code   *)
(* itself has: team membership, the single run per call of an entry point, *)
(* and the chunk loop of main().                                           *)
(*                                                                         *)
(* A run is one generator consumed by one for-loop, so member calls are    *)
(* sequential; a call is one step, or, where its extent in time matters,  *)
(* a BeginCall and an EndCall.  Neither entry point nor main() wraps       *)
(* the generator in try/except, a timeout or a retry: an exception raised  *)
(* while a call is in flight ends the run.                                  *)
(***************************************************************************)
EXTENDS Integers, Sequences, FiniteSets, TLC

\* ---------------------------------------------------------------- bounds
MaxPaths == 2       \* candidate strategies per generation ("Path A", "Path B")
MaxScore == 1       \* grader scores range over 0..MaxScore
MaxVariance == 1    \* variance from benchmark cost data, 0..MaxVariance
MaxChunks == 1      \* chunks of the response stream main() consumes
MaxEvents == 2      \* entries of the log audit_trail_agent answers with
MaxTime == 2        \* timestamps range over 1..MaxTime
MaxCalls == 2       \* cap on the calls of one member executing at once
MaxAmount == 15     \* amounts range over 0..MaxAmount (thousands of rupees)
MaxLimit == 2       \* per-day sub-limits range over 1..MaxLimit
MaxDays == 5        \* days of stay range over 1..MaxDays
MaxOthers == 2      \* supporting documents uploaded
MaxResults == 3     \* results handed to prepare_content
MaxStream == 4      \* chunks consumed where only the stream is followed

\* ------------------------------------------------------------ vocabulary
Analyses == {"medical_team", "fraud_team", "financial_team"}

PathGenerators == {"thinker_agent", "calculation_agent"}

master_team_v2 ==
    {"rules_team", "medical_team", "fraud_team", "financial_team",
     "calculation_agent", "calculation_validator", "discrepancy_analyzer",
     "review_team", "explainability_agent", "audit_trail_agent",
     "thinker_agent", "grader_agent"}

master_team ==
    {"rules_team", "medical_team", "fraud_team", "financial_team",
     "calculation_agent", "calculation_validator",
     "thinker_agent", "grader_agent"}

TeamOf(t) ==
    IF t = "master_team" THEN master_team
    ELSE IF t = "master_team_v2" THEN master_team_v2
    ELSE {}

\* The verdict a team's final report states, abstracted to the fact the
\* cross-checks are about.
Verdicts(a) ==
    IF a = "medical_team" THEN {"necessary", "not_necessary"}
    ELSE IF a = "fraud_team" THEN {"low_risk", "high_risk"}
    ELSE {"approve_full", "approve_partial"}

Paths == 1..MaxPaths

\* A candidate strategy: whether it respects every hard policy constraint
\* (such as the sum-insured cap) and its total variance from benchmark cost.
Candidates == [valid : BOOLEAN, variance : 0..MaxVariance]

\* The pairs of findings a discrepancy record can be about: the medical
\* necessity verdict against the approved amount.
Pairs == {<<"medical_team", "financial_team">>}

\* Two findings that cannot both be true.
Contradictory(f, p) ==
    /\ p = <<"medical_team", "financial_team">>
    /\ f["medical_team"] = "not_necessary"
    /\ f["financial_team"] = "approve_full"

Severities == {"High", "Medium", "Low"}

\* The stages whose completion the state records.
AuditedStages == {"rules_team"} \cup Analyses

\* An entry of the audit log: "Log each agent activation with timestamp".
AuditEvents == [stage : AuditedStages, time : 1..MaxTime]

\* The logs audit_trail_agent can answer with.
AuditLogs == UNION {[1..n -> AuditEvents] : n \in 0..MaxEvents}

\* What happens to an uploaded file: it is saved and converted, saving it
\* raises, or it is saved and the converter raises.
Fates == {"ok", "save_fails", "convert_fails"}

\* files = [claim_file, discharge_file, bills_file, other_files]: a main
\* slot is "None" or the fate of the file in it.
Uploads ==
    [main : [1..3 -> Fates \cup {"None"}],
     other : UNION {[1..n -> Fates] : n \in 0..MaxOthers}]

NoFiles == [main |-> [i \in 1..3 |-> "None"], other |-> <<>>]

\* The rule categories policy_extractor is told to extract.
Categories == {"eligibility", "sub_limits", "exclusions", "waiting_periods"}

VARIABLES
    pc,                 \* "idle", "streaming", "done", "crashed": main()'s position
    team,               \* the master team the entry point ran the claim on
    rules,              \* rules_team's answer: "none", "complete", "incomplete"
    finding,            \* latest verdict of each analysis team, or "none"
    candidates,         \* <<>> or the generated candidates, indexed by Paths
    score,              \* <<>> or the grader's score of each current path
    selected,           \* current paths the grader's answer marks as chosen
    discrepancy,        \* open record per pair: "none" or its severity
    response_collector, \* what main() has displayed, one entry per chunk
    policy,             \* required categories the policy document has a rule of
    audit_log,          \* the log in audit_trail_agent's latest answer
    inflight            \* per member, the number of its calls now executing

VARIABLES
    report_figure,      \* {} or {the variance figure the report text states}
    line_item,          \* a claimed room charge and the per-day sub-limit on it
    eligible            \* {} or {the eligible amount benefit_calculator states}

\* Figures: amounts are in thousands of rupees.
figures == <<report_figure, line_item, eligible>>

VARIABLES
    files,              \* the uploads: three main slots and the other files
    processed_results,  \* st.session_state.processed_results
    content,            \* <<>> or the blocks of prepare_content's string
    temp_uploads        \* names of the files in the temp_uploads directory

documents == <<files, processed_results, content, temp_uploads>>

vars == <<pc, team, rules, finding, candidates, score, selected,
          discrepancy, response_collector, policy, audit_log, inflight,
          report_figure, line_item, eligible,
          files, processed_results, content, temp_uploads>>

\* No delegated call is executing.
NoCalls == [m \in master_team_v2 |-> 0]

\* No figure has been stated; the line item is the room charge at the bounds.
InitFigures ==
    /\ report_figure = {}
    /\ line_item = [claimed |-> MaxAmount, limit |-> MaxLimit, days |-> MaxDays]
    /\ eligible = {}

\* Nothing uploaded, nothing processed, the directory empty.
InitDocuments ==
    /\ files = NoFiles
    /\ processed_results = <<>>
    /\ content = <<>>
    /\ temp_uploads = {}

Init ==
    /\ InitFigures
    /\ InitDocuments
    /\ pc = "idle"
    /\ team = "none"
    /\ rules = "none"
    /\ finding = [a \in Analyses |-> "none"]
    /\ candidates = <<>>
    /\ score = <<>>
    /\ selected = {}
    /\ discrepancy = [p \in Pairs |-> "none"]
    /\ response_collector = <<>>
    /\ policy = Categories
    /\ audit_log = <<>>
    /\ inflight = NoCalls

\* ---------------------------------------------------------- entry points
\* process_claim_detailed: master_team.run(prompt, stream=True, ...)
process_claim_detailed ==
    /\ pc = "idle"
    /\ pc' = "streaming"
    /\ team' = "master_team"
    /\ UNCHANGED <<rules, finding, candidates, score, selected,
                   discrepancy, response_collector>>
    /\ UNCHANGED <<policy, audit_log, inflight>>
    /\ UNCHANGED <<figures, documents>>

\* get_detailed_adjudication_prompt: master_team_v2.run(prompt, stream=True, ...)
get_detailed_adjudication_prompt ==
    /\ pc = "idle"
    /\ pc' = "streaming"
    /\ team' = "master_team_v2"
    /\ UNCHANGED <<rules, finding, candidates, score, selected,
                   discrepancy, response_collector>>
    /\ UNCHANGED <<policy, audit_log, inflight>>
    /\ UNCHANGED <<figures, documents>>

\* A member can be delegated to while the run is live and the member is in
\* the team list of the running master team.
InTeam(m) == pc = "streaming" /\ m \in TeamOf(team)

\* Member m can answer: no call of another member is executing.
CanDelegate(m) ==
    /\ InTeam(m)
    /\ \A o \in master_team_v2 \ {m} : inflight[o] = 0

\* ------------------------------------------------------------ the stages
\* rules_team answers with an extraction it judges complete or not.
RulesTeam ==
    /\ CanDelegate("rules_team")
    /\ \E r \in {"complete", "incomplete"} : rules' = r
    /\ UNCHANGED <<pc, team, finding, candidates, score, selected,
                   discrepancy, response_collector>>
    /\ UNCHANGED <<policy, audit_log, inflight>>
    /\ UNCHANGED <<figures, documents>>

\* medical_team, fraud_team, financial_team: the answer replaces the
\* team's earlier answer.
Analysis(a) ==
    /\ CanDelegate(a)
    /\ \E v \in Verdicts(a) : finding' = [finding EXCEPT ![a] = v]
    /\ UNCHANGED <<pc, team, rules, candidates, score, selected,
                   discrepancy, response_collector>>
    /\ UNCHANGED <<policy, audit_log, inflight>>
    /\ UNCHANGED <<figures, documents>>

\* thinker_agent / calculation_agent generate the calculation paths.  The
\* new paths replace the earlier ones and have not been graded.
GeneratePaths(m) ==
    /\ CanDelegate(m)
    /\ \E c \in [Paths -> Candidates] : candidates' = c
    /\ score' = <<>>
    /\ selected' = {}
    /\ UNCHANGED <<pc, team, rules, finding, discrepancy, response_collector>>
    /\ UNCHANGED <<policy, audit_log, inflight>>
    /\ UNCHANGED <<figures, documents>>

\* grader_agent: an evaluation matrix and a justified selection, both text.
\* It grades the paths that have been generated so far.
Grade ==
    /\ CanDelegate("grader_agent")
    /\ \E s \in [DOMAIN candidates -> 0..MaxScore] : score' = s
    /\ \E sel \in SUBSET (DOMAIN candidates) : selected' = sel
    /\ UNCHANGED <<pc, team, rules, finding, candidates,
                   discrepancy, response_collector>>
    /\ UNCHANGED <<policy, audit_log, inflight>>
    /\ UNCHANGED <<figures, documents>>

\* discrepancy_analyzer: rates each discrepancy it documents.
\* A record is about two findings that exist; whether a pair is recorded
\* and how it is rated is the analyzer's answer.
Reconcile ==
    /\ CanDelegate("discrepancy_analyzer")
    /\ \E d \in [Pairs -> Severities \cup {"none"}] :
          /\ \A p \in Pairs :
                d[p] # "none" => finding[p[1]] # "none" /\ finding[p[2]] # "none"
          /\ discrepancy' = d
    /\ UNCHANGED <<pc, team, rules, finding, candidates, score, selected,
                   response_collector>>
    /\ UNCHANGED <<policy, audit_log, inflight>>
    /\ UNCHANGED <<figures, documents>>

\* ------------------------------------------------------- main()'s loop
\* A loop body that displays only the latest chunk.
ConsumeReplacing(limit) ==
    /\ pc = "streaming"
    /\ Len(response_collector) < limit
    /\ \E k \in {"report", "error_box"} : response_collector' = <<k>>
    /\ UNCHANGED <<pc, team, rules, finding, candidates, score, selected,
                   discrepancy>>
    /\ UNCHANGED <<policy, audit_log, inflight>>
    /\ UNCHANGED <<figures, documents>>

\* One iteration of `for chunk in response_stream`: the formatted chunk, or
\* the error box of the except branch, is appended and displayed at once.
\* At most `limit` chunks are followed.
Consume(limit) ==
    /\ pc = "streaming"
    /\ Len(response_collector) < limit
    /\ \E k \in {"report", "error_box"} :
          response_collector' = Append(response_collector, k)
    /\ UNCHANGED <<pc, team, rules, finding, candidates, score, selected,
                   discrepancy>>
    /\ UNCHANGED <<policy, audit_log, inflight>>
    /\ UNCHANGED <<figures, documents>>

ConsumeChunk == Consume(MaxChunks)

StreamChunk == Consume(MaxStream)

\* The generator is exhausted: every delegated call has returned.
StreamEnds ==
    /\ pc = "streaming"
    /\ inflight = NoCalls
    /\ pc' = "done"
    /\ UNCHANGED <<team, rules, finding, candidates, score, selected,
                   discrepancy, response_collector>>
    /\ UNCHANGED <<policy, audit_log, inflight>>
    /\ UNCHANGED <<figures, documents>>

\* The call to member m raises (API error, time-out of the remote model):
\* the exception leaves the generator and main()'s for statement.
StageRaises(m) ==
    /\ CanDelegate(m)
    /\ pc' = "crashed"
    /\ inflight' = NoCalls
    /\ UNCHANGED <<team, rules, finding, candidates, score, selected,
                   discrepancy, response_collector>>
    /\ UNCHANGED <<policy, audit_log>>
    /\ UNCHANGED <<figures, documents>>

\* audit_trail_agent: its answer is the log, written anew at every call.
AuditTrail ==
    /\ CanDelegate("audit_trail_agent")
    /\ \E l \in AuditLogs : audit_log' = l
    /\ UNCHANGED <<pc, team, rules, finding, candidates, score, selected,
                   discrepancy, response_collector, policy, inflight>>
    /\ UNCHANGED <<figures, documents>>

\* ------------------------------------------------- a call, step by step
\* A delegation that starts whether or not another call is executing, as a
\* manager running its tool calls on threads would.
BeginCallConcurrently(m) ==
    /\ InTeam(m)
    /\ inflight[m] < MaxCalls
    /\ inflight' = [inflight EXCEPT ![m] = @ + 1]
    /\ UNCHANGED <<pc, team, rules, finding, candidates, score, selected,
                   discrepancy, response_collector, policy, audit_log>>
    /\ UNCHANGED <<figures, documents>>

\* The manager delegates to member m.  The run is one synchronous generator:
\* a delegation starts only where the generator executes, that is when no
\* other call is executing.
BeginCall(m) ==
    /\ InTeam(m)
    /\ inflight = NoCalls
    /\ inflight[m] < MaxCalls
    /\ inflight' = [inflight EXCEPT ![m] = @ + 1]
    /\ UNCHANGED <<pc, team, rules, finding, candidates, score, selected,
                   discrepancy, response_collector, policy, audit_log>>
    /\ UNCHANGED <<figures, documents>>

\* The call of member m returns to the manager.
EndCall(m) ==
    /\ pc = "streaming"
    /\ inflight[m] > 0
    /\ inflight' = [inflight EXCEPT ![m] = @ - 1]
    /\ UNCHANGED <<pc, team, rules, finding, candidates, score, selected,
                   discrepancy, response_collector, policy, audit_log>>
    /\ UNCHANGED <<figures, documents>>

\* --------------------------------------------------------------- figures
\* The manager writes the report ("Generate 'Agentic Adjudication Scrutiny
\* Report'"): the variance it states for the chosen path is part of its text.
ReportFigure ==
    /\ pc = "streaming"
    /\ inflight = NoCalls
    /\ \E n \in 0..MaxVariance : report_figure' = {n}
    /\ UNCHANGED <<pc, team, rules, finding, candidates, score, selected,
                   discrepancy, response_collector, policy, audit_log, inflight>>
    /\ UNCHANGED <<line_item, eligible, documents>>

\* benefit_calculator, a member of financial_team: "Calculate room rent
\* capping adjustments".  The eligible amount is a figure in its answer.
BenefitCalculator ==
    /\ CanDelegate("financial_team")
    /\ \E n \in 0..MaxAmount : eligible' = {n}
    /\ UNCHANGED <<pc, team, rules, finding, candidates, score, selected,
                   discrepancy, response_collector, policy, audit_log, inflight>>
    /\ UNCHANGED <<report_figure, line_item, documents>>

\* ------------------------------------------------------------- documents
\* Uploaded files are named by their place: 1, 2, 3 the main slots, 3 + j
\* the j-th supporting document.
doc_types == <<"Claim Form", "Discharge Note", "Medical Bills">>

\* process_document: the converter's result, or the except branch.
process_document(name, fate, doc_type) ==
    IF fate = "ok"
    THEN [status |-> "success", file_name |-> name, doc_type |-> doc_type]
    ELSE [status |-> "error", file_name |-> name, doc_type |-> doc_type]

\* The body of one loop iteration of process_documents: save and process,
\* or the except branch when saving raises.
ProcessFile(name, fate, doc_type) ==
    IF fate = "save_fails"
    THEN [status |-> "error", file_name |-> name, doc_type |-> doc_type]
    ELSE process_document(name, fate, doc_type)

\* The main slots that hold a file, in slot order.
MainSlots(f) == SelectSeq(<<1, 2, 3>>, LAMBDA i : f.main[i] # "None")

\* The results up to and excluding the first errored one.
UntilFirstError(rs) ==
    SubSeq(rs, 1,
           CHOOSE n \in 0..Len(rs) :
              /\ \A k \in 1..n : rs[k].status = "success"
              /\ n < Len(rs) => rs[n + 1].status = "error")

AllResults(f) ==
    [k \in 1..Len(MainSlots(f)) |->
        ProcessFile(MainSlots(f)[k], f.main[MainSlots(f)[k]],
                    doc_types[MainSlots(f)[k]])]
    \o [j \in 1..Len(f.other) |->
           ProcessFile(3 + j, f.other[j], "Supporting Document")]

\* A process_documents whose loops end at the first file that fails.
process_documents_stopping(f) == UntilFirstError(AllResults(f))

\* process_documents: the three main documents that are present, then the
\* other files, one result appended per file.
process_documents(f) == AllResults(f)

\* The names save_uploaded_file has written to the directory.
Saved(f) ==
    {i \in 1..3 : f.main[i] \in {"ok", "convert_fails"}}
    \cup {3 + j : j \in {k \in 1..Len(f.other) : f.other[k] # "save_fails"}}

\* The names for which open() may have created the file before saving raised.
HalfSaved(f) ==
    {i \in 1..3 : f.main[i] = "save_fails"}
    \cup {3 + j : j \in {k \in 1..Len(f.other) : f.other[k] = "save_fails"}}

\* main(): the button is pressed with at least one document uploaded.
ProcessDocuments ==
    /\ pc = "idle"
    /\ processed_results = <<>>
    /\ files # NoFiles
    /\ processed_results' = process_documents(files)
    /\ \E h \in SUBSET HalfSaved(files) :
          temp_uploads' = temp_uploads \cup Saved(files) \cup h
    /\ UNCHANGED <<pc, team, rules, finding, candidates, score, selected,
                   discrepancy, response_collector, policy, audit_log, inflight>>
    /\ UNCHANGED <<figures, files, content>>

\* doc_type_order.get(x['doc_type'], 999)
doc_type_order(t) ==
    CASE t = "Claim Form" -> 1
      [] t = "Discharge Note" -> 2
      [] t = "Medical Bills" -> 3
      [] t = "Supporting Document" -> 4
      [] OTHER -> 999

\* The keys in ascending order.
Keys == <<1, 2, 3, 4, 999>>

\* The results with key Keys[i], in their input order.
WithKey(results, i) ==
    SelectSeq(results, LAMBDA r : doc_type_order(r.doc_type) = Keys[i])

Reverse(q) == [k \in 1..Len(q) |-> q[Len(q) + 1 - k]]

\* A sort by key that does not keep the input order of equal keys.
sorted_unstable(results) ==
    Reverse(WithKey(results, 1)) \o Reverse(WithKey(results, 2))
    \o Reverse(WithKey(results, 3)) \o Reverse(WithKey(results, 4))
    \o Reverse(WithKey(results, 5))

\* sorted(results, key=...): ascending by key, equal keys in input order.
sorted(results) ==
    WithKey(results, 1) \o WithKey(results, 2) \o WithKey(results, 3)
    \o WithKey(results, 4) \o WithKey(results, 5)

\* The block prepare_content writes for one result.
Block(r) ==
    [doc_type |-> r.doc_type, file_name |-> r.file_name,
     body |-> IF r.status = "success" THEN "content" ELSE "error_details"]

prepare_content(results) ==
    [k \in 1..Len(results) |-> Block(sorted(results)[k])]

\* main(): prepare_content(st.session_state.processed_results), evaluated
\* when the session holds results.
PrepareContent ==
    /\ pc = "idle"
    /\ processed_results # <<>>
    /\ content = <<>>
    /\ content' = prepare_content(processed_results)
    /\ UNCHANGED <<pc, team, rules, finding, candidates, score, selected,
                   discrepancy, response_collector, policy, audit_log, inflight>>
    /\ UNCHANGED <<figures, files, processed_results, temp_uploads>>

\* main(): the prepared content is handed to process_claim_detailed.
ShowFinalReport ==
    /\ content # <<>>
    /\ process_claim_detailed

\* st.session_state.get("_is_running", False): no code sets the key.
is_running == FALSE

\* cleanup_temp_files: every file is unlinked and the directory removed; a
\* removal that fails leaves the file and shows a warning.
cleanup_temp_files(t) == SUBSET t

\* main() reaches its last statement: "Cleanup on session end".
MainEnds ==
    /\ pc \in {"idle", "done"}
    /\ pc' = "ended"
    /\ IF is_running
       THEN temp_uploads' \in cleanup_temp_files(temp_uploads)
       ELSE temp_uploads' = temp_uploads
    /\ UNCHANGED <<team, rules, finding, candidates, score, selected,
                   discrepancy, response_collector, policy, audit_log, inflight>>
    /\ UNCHANGED <<figures, files, processed_results, content>>

Next ==
    \/ process_claim_detailed
    \/ get_detailed_adjudication_prompt
    \/ RulesTeam
    \/ \E a \in Analyses : Analysis(a)
    \/ \E m \in PathGenerators : GeneratePaths(m)
    \/ Grade
    \/ Reconcile
    \/ ConsumeChunk
    \/ StreamEnds
    \/ \E m \in master_team_v2 : StageRaises(m)

Spec == Init /\ [][Next]_vars

\* ------------------------------------------------------- the audit trail
NextAudit ==
    \/ process_claim_detailed
    \/ get_detailed_adjudication_prompt
    \/ RulesTeam
    \/ \E a \in Analyses : Analysis(a)
    \/ AuditTrail
    \/ ConsumeChunk
    \/ StreamEnds
    \/ \E m \in master_team_v2 : StageRaises(m)

SpecAudit == Init /\ [][NextAudit]_vars

\* ------------------------------------------------------- rule extraction
\* The policy document is an input: any subset of the required categories
\* may be the ones it has a rule of.
InitRules ==
    /\ InitFigures
    /\ InitDocuments
    /\ pc = "idle"
    /\ team = "none"
    /\ rules = "none"
    /\ finding = [a \in Analyses |-> "none"]
    /\ candidates = <<>>
    /\ score = <<>>
    /\ selected = {}
    /\ discrepancy = [p \in Pairs |-> "none"]
    /\ response_collector = <<>>
    /\ policy \in SUBSET Categories
    /\ audit_log = <<>>
    /\ inflight = NoCalls

NextRules ==
    \/ process_claim_detailed
    \/ get_detailed_adjudication_prompt
    \/ RulesTeam
    \/ ConsumeChunk
    \/ StreamEnds
    \/ \E m \in master_team_v2 : StageRaises(m)

SpecRules == InitRules /\ [][NextRules]_vars

\* The run keeps executing while it can: some step is taken as long as one
\* is possible.  Which step is the manager model's choice.
SpecRulesFair == SpecRules /\ WF_vars(NextRules)

\* ------------------------------------------------------------ the report
NextReport ==
    \/ process_claim_detailed
    \/ get_detailed_adjudication_prompt
    \/ \E m \in PathGenerators : GeneratePaths(m)
    \/ Grade
    \/ ReportFigure
    \/ StreamEnds
    \/ \E m \in master_team_v2 : StageRaises(m)

SpecReport == Init /\ [][NextReport]_vars

\* ------------------------------------------------- the benefit calculation
\* The line item is an input: any claimed amount, daily limit and stay.
InitBenefit ==
    /\ InitDocuments
    /\ report_figure = {}
    /\ line_item \in [claimed : 0..MaxAmount, limit : 1..MaxLimit,
                       days : 1..MaxDays]
    /\ eligible = {}
    /\ pc = "idle"
    /\ team = "none"
    /\ rules = "none"
    /\ finding = [a \in Analyses |-> "none"]
    /\ candidates = <<>>
    /\ score = <<>>
    /\ selected = {}
    /\ discrepancy = [p \in Pairs |-> "none"]
    /\ response_collector = <<>>
    /\ policy = Categories
    /\ audit_log = <<>>
    /\ inflight = NoCalls

NextBenefit ==
    \/ process_claim_detailed
    \/ get_detailed_adjudication_prompt
    \/ BenefitCalculator
    \/ StreamEnds
    \/ \E m \in master_team_v2 : StageRaises(m)

SpecBenefit == InitBenefit /\ [][NextBenefit]_vars

\* ------------------------------------------------- a script run of main()
\* The uploads are an input.
InitDocs ==
    /\ InitFigures
    /\ files \in Uploads
    /\ processed_results = <<>>
    /\ content = <<>>
    /\ temp_uploads = {}
    /\ pc = "idle"
    /\ team = "none"
    /\ rules = "none"
    /\ finding = [a \in Analyses |-> "none"]
    /\ candidates = <<>>
    /\ score = <<>>
    /\ selected = {}
    /\ discrepancy = [p \in Pairs |-> "none"]
    /\ response_collector = <<>>
    /\ policy = Categories
    /\ audit_log = <<>>
    /\ inflight = NoCalls

NextDocs ==
    \/ ProcessDocuments
    \/ PrepareContent
    \/ ShowFinalReport
    \/ StreamEnds
    \/ MainEnds

SpecDocs == InitDocs /\ [][NextDocs]_vars

\* ------------------------------------------------------- prepare_content
DocTypes ==
    {"Claim Form", "Discharge Note", "Medical Bills", "Supporting Document",
     "Other"}

\* Any list of results may be in the session; a result is named by its
\* place in the list.
ResultLists ==
    UNION {{rs \in [1..n -> [status : {"success", "error"},
                             file_name : 1..n,
                             doc_type : DocTypes]] :
               \A i \in 1..n : rs[i].file_name = i} : n \in 1..MaxResults}

InitContent ==
    /\ InitFigures
    /\ files = NoFiles
    /\ processed_results \in ResultLists
    /\ content = <<>>
    /\ temp_uploads = {}
    /\ pc = "idle"
    /\ team = "none"
    /\ rules = "none"
    /\ finding = [a \in Analyses |-> "none"]
    /\ candidates = <<>>
    /\ score = <<>>
    /\ selected = {}
    /\ discrepancy = [p \in Pairs |-> "none"]
    /\ response_collector = <<>>
    /\ policy = Categories
    /\ audit_log = <<>>
    /\ inflight = NoCalls

NextContent ==
    \/ PrepareContent
    \/ ShowFinalReport
    \/ StreamEnds

SpecContent == InitContent /\ [][NextContent]_vars

\* ------------------------------------------------------------ the stream
NextStream ==
    \/ process_claim_detailed
    \/ get_detailed_adjudication_prompt
    \/ StreamChunk
    \/ StreamEnds
    \/ \E m \in master_team_v2 : StageRaises(m)

SpecStream == Init /\ [][NextStream]_vars

\* ------------------------------------------------- calls, step by step
NextCalls ==
    \/ process_claim_detailed
    \/ get_detailed_adjudication_prompt
    \/ \E m \in master_team_v2 : BeginCall(m)
    \/ \E m \in master_team_v2 : EndCall(m)
    \/ \E a \in Analyses : Analysis(a)
    \/ Reconcile
    \/ StreamEnds
    \/ \E m \in master_team_v2 : StageRaises(m)

SpecCalls == Init /\ [][NextCalls]_vars

\* ------------------------------------------------------ derived notions
\* Views of the state, and the notions of the specification the claims are
\* stated in.
\* The displayed response contains report text.
ReportShown ==
    \E i \in 1..Len(response_collector) : response_collector[i] = "report"

\* UnresolvedDiscrepancy: a record the analyzer documented is still open.
UnresolvedDiscrepancy == \E p \in Pairs : discrepancy[p] # "none"

\* NoValidStrategy: paths were generated and each violates a hard constraint.
NoValidStrategy ==
    /\ candidates # <<>>
    /\ \A p \in DOMAIN candidates : ~candidates[p].valid

Ended == pc \in {"done", "crashed"}

\* Grading has completed: the grader scored the generated paths.
Graded == score # <<>>

\* The paths with the highest score, and among them the ones with the
\* lowest variance from benchmark cost.
TopScored(c, s) == {p \in DOMAIN s : \A q \in DOMAIN s : s[q] <= s[p]}

Best(c, s) ==
    {p \in TopScored(c, s) :
        \A q \in TopScored(c, s) : c[p].variance <= c[q].variance}

\* ----------------------------------------------------------- the claims

\* C1: while a DiscrepancyRecord of the claim is unresolved, the workflow
\* is not Done and the displayed response holds no report text.
C1_ReportBlockedWhileUnresolved ==
    UnresolvedDiscrepancy => pc # "done" /\ ~ReportShown

\* C2: a workflow that has ended with an unresolved fatal condition
\* (NoValidStrategy, UnresolvedDiscrepancy) has emitted no report text,
\* partial or degraded.
C2_NoReportOnFatal ==
    (Ended /\ (NoValidStrategy \/ UnresolvedDiscrepancy)) => ~ReportShown

\* C3: once grading has completed, exactly one of the generated candidates
\* is marked selected, in that state and in every later one.  (Stated for
\* candidate sets with a valid candidate; the all-invalid case is C8's.)
C3_ExactlyOneSelected ==
    (Graded /\ ~NoValidStrategy) => Cardinality(selected) = 1

\* C4: the analyses and the calculation stage run only after rule
\* extraction has completed, and reconciliation runs only after all three
\* analyses have completed and a strategy has been selected.
C4_StageOrder ==
    [][ /\ (\E a \in Analyses : Analysis(a)) => rules # "none"
        /\ ((\E m \in PathGenerators : GeneratePaths(m)) \/ Grade)
              => rules # "none"
        /\ Reconcile =>
              /\ \A a \in Analyses : finding[a] # "none"
              /\ selected # {} ]_vars

\* C5: a reconciliation pass over two contradictory findings records the
\* pair with severity High, and while a High record is open no report text
\* is added to the response and the workflow does not become Done.
C5_ContradictionIsHighAndBlocks ==
    [][ /\ Reconcile =>
              \A p \in Pairs :
                 Contradictory(finding, p) => discrepancy'[p] = "High"
        /\ (\E p \in Pairs : discrepancy[p] = "High") =>
              /\ pc' # "done"
              /\ ReportShown' => ReportShown ]_vars

\* C6: when the grader grades a candidate set with at least one valid
\* candidate, the selected strategy is one with the highest score and,
\* among those tied on the highest score, one with the lowest variance.
C6_SelectsBest ==
    (Graded /\ ~NoValidStrategy) =>
       \E p \in Best(candidates, score) : selected = {p}

\* C7: grading an identical candidate set a second time with identical
\* scores marks the same candidate as selected.
C7_SelectionDeterministic ==
    [][ (Grade /\ Graded /\ ~NoValidStrategy /\ score' = score)
           => selected' = selected ]_vars

\* C8: when every generated candidate violates a hard policy constraint,
\* no candidate is marked selected, no report text is displayed and the
\* workflow does not become Done.  (The code keeps no retry counter, so the
\* claim's clause about one has nothing to be stated over.)
C8_NoValidStrategyFails ==
    NoValidStrategy =>
       /\ selected = {}
       /\ ~ReportShown
       /\ pc # "done"

\* C9: when the call to one analysis fails, the other two analyses have
\* produced their findings or are still able to.
C9_AnalysisFailureIsolated ==
    [][ \A a \in Analyses :
           StageRaises(a) =>
              \/ pc' = "streaming"
              \/ \A o \in Analyses \ {a} : finding'[o] # "none" ]_vars

\* C10: a stage call that fails leaves the stage marked incomplete and the
\* pipeline running; it never crashes the pipeline.  (The code keeps no
\* retry counter, so the claim's bound on one has nothing to be stated over.)
C10_FailureMarksIncomplete ==
    [][ \A m \in master_team_v2 :
           StageRaises(m) =>
              /\ pc' # "crashed"
              /\ m \in Analyses => finding'[m] = "incomplete"
              /\ m = "rules_team" => rules' = "incomplete" ]_vars

\* The analysis stages a discrepancy record implicates: the two whose
\* findings it is about.
Implicated == UNION {{p[1], p[2]} : p \in {q \in Pairs : discrepancy[q] # "none"}}

\* C11: while a discrepancy record is open, only the stages it implicates are
\* rerun: no step changes the finding of a non-implicated analysis or the
\* completely extracted rule set, so rule extraction is not repeated.
C11_RerunOnlyImplicated ==
    [][ (UnresolvedDiscrepancy /\ rules = "complete") =>
           /\ rules' = rules
           /\ \A a \in Analyses \ Implicated : finding'[a] = finding[a] ]_vars

\* C12: no report text is emitted while a required section (medical, fraud,
\* financial) has no backing finding.
C12_ReportNeedsBackingFindings ==
    ReportShown => \A a \in Analyses : finding[a] # "none"

\* C16: each analysis is idempotent: rerun on the same claim with the same
\* rule set, it produces the finding of its first run.
C16_AnalysisIdempotent ==
    [][ \A a \in Analyses :
           (Analysis(a) /\ finding[a] # "none" /\ rules' = rules)
              => finding'[a] = finding[a] ]_vars

\* All three analyses have reported.
AnalysesComplete == \A a \in Analyses : finding[a] # "none"

\* C17: the three findings do not depend on the order in which the analyses
\* run and complete: once all three are in, running the analyses further, in
\* whatever order, yields the same three findings.
C17_OrderInsensitive ==
    [][ (AnalysesComplete /\ rules' = rules) => finding' = finding ]_vars

\* C20: the extracted rule set is immutable from the end of rule extraction
\* onward: once extraction is complete and an analysis has read the rules,
\* no step changes them, so every analysis sees the same snapshot.
C20_RulesImmutable ==
    [][ (rules = "complete" /\ \E a \in Analyses : finding[a] # "none")
           => rules' = rules ]_vars

\* A log whose timestamps strictly increase.
StrictlyOrdered(l) == \A i, j \in 1..Len(l) : i < j => l[i].time < l[j].time

\* Log l is log k with entries appended, or k itself.
Extends(l, k) == Len(k) <= Len(l) /\ \A i \in 1..Len(k) : l[i] = k[i]

\* C13: the audit log is append-only and strictly time-ordered: no step
\* deletes or modifies an entry, and the timestamps strictly increase.
C13_AuditAppendOnly ==
    [][ Extends(audit_log', audit_log) /\ StrictlyOrdered(audit_log') ]_vars

\* Stage s has completed at least once.
Completed(s) == IF s = "rules_team" THEN rules # "none" ELSE finding[s] # "none"

\* C14: when the run has ended normally, the audit log has an entry for the
\* transition of every stage that completed: no transition is missing.
C14_NoTransitionMissing ==
    pc = "done" =>
       \A s \in AuditedStages :
          Completed(s) => \E i \in 1..Len(audit_log) : audit_log[i].stage = s

\* C15: a policy document with a rule in every required category never
\* makes rule extraction end as incomplete.
C15_CompletePolicyExtracts ==
    policy = Categories => rules # "incomplete"

\* The members a call of which is executing.
Executing == {m \in master_team_v2 : inflight[m] > 0}

C19_AbortSurfacesNoReport ==
    [][ pc' = "crashed" => (audit_log' = audit_log /\ ~ReportShown') ]_vars

\* The member that carries out each step of the pipeline the docstring of
\* process_claim_detailed lists: rules, medical, fraud, financial,
\* validation, discrepancies, final review, audit trail.
PipelineMembers ==
    {"rules_team", "medical_team", "fraud_team", "financial_team",
     "calculation_validator", "discrepancy_analyzer", "review_team",
     "audit_trail_agent"}

\* C21: the team process_claim_detailed runs a claim on has a member for
\* every step of the pipeline, so that the claim can go through all of them.
C21_TeamCoversPipeline ==
    team = "master_team" => PipelineMembers \subseteq TeamOf(team)

\* The run has come to the calculation stage by the forward order:
\* extraction is complete, the analyses have reported, a path exists.
Calculating == rules = "complete" /\ AnalysesComplete /\ candidates # <<>>

\* C23: control flows forward.  A step back from calculation to an analysis
\* is taken only for an analysis an open discrepancy record implicates.
C23_ForwardOnly ==
    [][ \A a \in Analyses :
           (Analysis(a) /\ Calculating) => a \in Implicated ]_vars

\* C25: a discrepancy record is closed only when the findings it is about
\* have become consistent with each other; it does not disappear while they
\* still contradict each other.
C25_ClosedOnlyWhenConsistent ==
    [][ \A p \in Pairs :
           (discrepancy[p] # "none" /\ discrepancy'[p] = "none")
              => ~Contradictory(finding', p) ]_vars

\* C26: every run eventually ends, normally or by failing: the loop of
\* re-extraction requests cannot keep it going forever.
C26_Terminates == <>Ended

\* C22: the report introduces no number of its own: when a strategy is
\* selected, the variance the report states is the variance of a selected
\* strategy.
C22_ReportFigureTraces ==
    selected # {} =>
       \A n \in report_figure :
          \E p \in selected : candidates[p].variance = n

Min(a, b) == IF a <= b THEN a ELSE b

\* The cap a per-day sub-limit puts on the line item.
Cap == line_item.limit * line_item.days

\* C24: the eligible amount of a line item under a per-day sub-limit is
\* min(claimed, daily limit * days); it exceeds neither claimed nor cap.
C24_EligibleIsMin ==
    \A n \in eligible : n = Min(line_item.claimed, Cap)

\* The names of the files that were uploaded.
UploadedNames ==
    {i \in 1..3 : files.main[i] # "None"}
    \cup {3 + j : j \in 1..Len(files.other)}

\* What happened to the uploaded file of name n.
FateOf(n) == IF n <= 3 THEN files.main[n] ELSE files.other[n - 3]

\* The document type of the uploaded file of name n.
TypeOf(n) == IF n <= 3 THEN doc_types[n] ELSE "Supporting Document"

\* process_documents has run.
Processed == processed_results # <<>>

\* C27: process_documents returns exactly one result per uploaded file, in
\* the order claim form, discharge note, medical bills, then the supporting
\* documents in upload order; a file that fails to save or convert gets a
\* result of status "error" and the files after it are still processed.
C27_OneResultPerFile ==
    Processed =>
       /\ Len(processed_results) = Cardinality(UploadedNames)
       /\ \A k, l \in 1..Len(processed_results) :
             k < l => processed_results[k].file_name
                         < processed_results[l].file_name
       /\ \A k \in 1..Len(processed_results) :
             LET r == processed_results[k] IN
                /\ r.file_name \in UploadedNames
                /\ r.doc_type = TypeOf(r.file_name)
                /\ r.status = "error" <=> FateOf(r.file_name) # "ok"

\* A file failed and a file after it was processed successfully.
C27_Witness ==
    /\ Processed
    /\ \E k, l \in 1..Len(processed_results) :
          /\ k < l
          /\ processed_results[k].status = "error"
          /\ processed_results[l].status = "success"

\* prepare_content has run.
Prepared == content # <<>>

\* C28: prepare_content emits one block per result, none dropped or
\* duplicated, ordered by document type (any other type last), results of
\* one type in their input order; an errored result contributes its error
\* details instead of content.
C28_OneBlockPerResultInOrder ==
    Prepared =>
       /\ Len(content) = Len(processed_results)
       /\ \A i \in 1..Len(processed_results) :
             \E k \in 1..Len(content) :
                /\ content[k].file_name = processed_results[i].file_name
                /\ content[k].doc_type = processed_results[i].doc_type
                /\ content[k].body = "error_details"
                      <=> processed_results[i].status = "error"
       /\ \A k, l \in 1..Len(content) :
             k < l =>
                \/ doc_type_order(content[k].doc_type)
                      < doc_type_order(content[l].doc_type)
                \/ /\ doc_type_order(content[k].doc_type)
                         = doc_type_order(content[l].doc_type)
                   /\ content[k].file_name < content[l].file_name

\* Blocks were reordered: two results of one type follow, in their input
\* order, a later result of an earlier type, and one of them is errored.
C28_Witness ==
    /\ Prepared
    /\ Len(content) = MaxResults
    /\ content[1].file_name = MaxResults
    /\ content[2].doc_type = content[MaxResults].doc_type
    /\ \E k \in 1..Len(content) : content[k].body = "error_details"

\* C29: while the response is streamed, the displayed text only grows: a
\* chunk appends one piece, its formatted content or an error box, earlier
\* output is kept as it is, and after an error box the loop goes on.
C29_DisplayOnlyGrows ==
    [][ /\ Extends(response_collector', response_collector)
        /\ Len(response_collector') <= Len(response_collector) + 1
        /\ Len(response_collector') > Len(response_collector)
              => pc' = "streaming" ]_vars

\* A chunk failed, its error box was displayed, and later chunks were
\* consumed and displayed after it.
C29_Witness ==
    /\ Len(response_collector) >= 3
    /\ response_collector[1] = "report"
    /\ response_collector[2] = "error_box"
    /\ response_collector[3] = "report"

\* C30: when a run of main() has ended, the files it saved to temp_uploads
\* have been removed.
C30_TempFilesCleanedUp ==
    pc = "ended" => temp_uploads = {}

====
